---- MODULE Spec2Model ----
(***************************************************************************)
(* Leaderboard / ranking engine of Dictation_Practice_API.                 *)
(*                                                                         *)
(* The store is the table top_performance_overall; the user totals are     *)
(* the columns users.score / users.time / users.is_active.  The operations *)
(* are the static methods of TopPerformanceService, ProgressService and    *)
(* UserService.  Every operation is modelled twice where a claim needs it: *)
(* as one atomic call (the sequential specifications) and split into the   *)
(* statements of its database session (the concurrent specification).      *)
(***************************************************************************)
EXTENDS Integers, Sequences, FiniteSets, TLC

\* ------------------------------------------------------------------------
\* Bounds of the model
\* ------------------------------------------------------------------------
MaxEvents == 3
MaxFlips == 2
MaxProgress == 2
MaxAdmin == 2
MaxWrites == 3

Users == {1, 2}
Lessons == {1}
Scores == {1, 2}
Times == {0, 1}

\* completed_parts submitted with a progress, and lesson.parts of each lesson
Parts == {1, 2}
LessonParts == [l \in Lessons |-> 2]

\* the <<score, time>> of the completions the sequential specification draws
\* from: a higher score, an equal score in less / more time, a zero time
SeqCompletions == {<<1, 0>>, <<2, 0>>, <<2, 1>>}

\* the completion events the concurrent specification draws from
ConcUsers == {1}
ConcTimes == {1}

\* ------------------------------------------------------------------------
\* Program constants
\* ------------------------------------------------------------------------
NoLesson == 0
NoId == 0
SentinelRank == 999999

ALL_TIME == "all_time"
LAST_MONTH == "last_month"
CURRENT_MONTH == "current_month"
LAST_WEEK == "last_week"
CURRENT_WEEK == "current_week"
BY_LESSON == "by_lesson"

RankingModeEnum == {ALL_TIME, LAST_MONTH, CURRENT_MONTH, LAST_WEEK, CURRENT_WEEK, BY_LESSON}

\* ------------------------------------------------------------------------
\* Arithmetic helpers
\* ------------------------------------------------------------------------
RECURSIVE GCD(_, _)
GCD(a, b) == IF b = 0 THEN a ELSE GCD(b, a % b)

\* score / time if time > 0 else 0, kept as a reduced fraction <<num, den>>
Performance(score, time) ==
    IF time > 0
    THEN LET g == GCD(score, time) IN <<score \div g, time \div g>>
    ELSE <<0, 1>>

Min(S) == CHOOSE x \in S : \A y \in S : x <= y

\* ------------------------------------------------------------------------
\* Rows of top_performance_overall
\* ------------------------------------------------------------------------
TopPerformanceOverall(id, mode, user, rank, score, time, perf, lesson) ==
    [id |-> id, mode |-> mode, user_id |-> user, rank |-> rank,
     score |-> score, time |-> time, performance |-> perf, lesson_id |-> lesson]

NoRecord == [id |-> NoId]

Ids(S) == {r.id : r \in S}

\* uuid4(): an identifier no row and no live session reference carries
FreshId(used) == Min({n \in 1..(Cardinality(used) + 1) : n \notin used})

\* db.query(...).filter(user_id, mode[, lesson_id]).first(): any matching
\* row, or None
First(S) == IF S = {} THEN {NoRecord} ELSE S

QueryUserMode(S, user, mode) == {r \in S : r.user_id = user /\ r.mode = mode}

QueryUserLesson(S, user, lesson) ==
    {r \in S : r.user_id = user /\ r.mode = BY_LESSON /\ r.lesson_id = lesson}

\* mutant: the lesson_id filter of _rerank_mode is dropped
Partition_any_lesson(S, mode, lesson) == {r \in S : r.mode = mode}

\* the rows _rerank_mode selects
Partition(S, mode, lesson) ==
    {r \in S : r.mode = mode /\ (lesson # NoLesson => r.lesson_id = lesson)}

\* ------------------------------------------------------------------------
\* Unit of work of a session: rows to INSERT and column changes to UPDATE
\* ------------------------------------------------------------------------
NoWrites == [ins |-> {}, upd |-> {}]

Merge(w1, w2) == [ins |-> w1.ins \cup w2.ins, upd |-> w1.upd \cup w2.upd]

\* the columns of a loaded row whose value the session changed
Changed(rec, new) == [c \in {c \in DOMAIN new : new[c] # rec[c]} |-> new[c]]

UpdateOf(rec, new) ==
    IF DOMAIN Changed(rec, new) = {} THEN {}
    ELSE {[id |-> rec.id, cols |-> Changed(rec, new)]}

\* UPDATE ... WHERE id = u.id matched no row (StaleDataError at flush)
Stale(S, w) == \E u \in w.upd : u.id \notin Ids(S)

ApplyUpdate(r, u) ==
    [c \in DOMAIN r |-> IF c \in DOMAIN u.cols THEN u.cols[c] ELSE r[c]]

RECURSIVE InsertAll(_, _, _)
InsertAll(S, ins, used) ==
    IF ins = {} THEN S
    ELSE LET n == CHOOSE x \in ins : TRUE
             id == FreshId(used)
         IN InsertAll(S \cup {[n EXCEPT !.id = id]}, ins \ {n}, used \cup {id})

\* flush + commit of a unit of work on the committed table
ApplyWrites(S, w, refs) ==
    LET updated == {IF \E u \in w.upd : u.id = r.id
                    THEN ApplyUpdate(r, CHOOSE u \in w.upd : u.id = r.id)
                    ELSE r : r \in S}
    IN InsertAll(updated, w.ins, Ids(S) \cup refs)

\* ------------------------------------------------------------------------
\* update_current_rankings: what one call writes, given the rows it read
\* ------------------------------------------------------------------------
\* mutant: the existing row is overwritten with the deltas instead of added to
AccumulateWrites_overwrite(rec, mode, user, score_to_add, time_to_add) ==
    IF rec # NoRecord
    THEN [ins |-> {},
          upd |-> UpdateOf(rec,
                    [score |-> score_to_add,
                     time |-> time_to_add,
                     performance |-> Performance(score_to_add, time_to_add)])]
    ELSE [ins |-> {TopPerformanceOverall(NoId, mode, user, SentinelRank,
                       score_to_add, time_to_add,
                       Performance(score_to_add, time_to_add), NoLesson)},
          upd |-> {}]

\* mutant: a new row is created with rank 1
AccumulateWrites_rank1(rec, mode, user, score_to_add, time_to_add) ==
    IF rec # NoRecord
    THEN [ins |-> {},
          upd |-> UpdateOf(rec,
                    [score |-> rec.score + score_to_add,
                     time |-> rec.time + time_to_add,
                     performance |-> Performance(rec.score + score_to_add,
                                                 rec.time + time_to_add)])]
    ELSE [ins |-> {TopPerformanceOverall(NoId, mode, user, 1,
                       score_to_add, time_to_add,
                       Performance(score_to_add, time_to_add), NoLesson)},
          upd |-> {}]

\* CURRENT_MONTH / CURRENT_WEEK: accumulate, or create with the sentinel rank
AccumulateWrites(rec, mode, user, score_to_add, time_to_add) ==
    IF rec # NoRecord
    THEN [ins |-> {},
          upd |-> UpdateOf(rec,
                    [score |-> rec.score + score_to_add,
                     time |-> rec.time + time_to_add,
                     performance |-> Performance(rec.score + score_to_add,
                                                 rec.time + time_to_add)])]
    ELSE [ins |-> {TopPerformanceOverall(NoId, mode, user, SentinelRank,
                       score_to_add, time_to_add,
                       Performance(score_to_add, time_to_add), NoLesson)},
          upd |-> {}]

\* mutant: the tie-break on time is inverted (slower attempt wins)
should_update_slower(rec, score_to_add, time_to_add) ==
    \/ score_to_add > rec.score
    \/ (score_to_add = rec.score /\ time_to_add > rec.time)

\* mutant: the by_lesson record is replaced by every attempt
should_update_always(rec, score_to_add, time_to_add) == TRUE

should_update(rec, score_to_add, time_to_add) ==
    \/ score_to_add > rec.score
    \/ (score_to_add = rec.score /\ time_to_add < rec.time)

\* BY_LESSON: keep the best attempt only
BestWrites(rec, user, lesson, score_to_add, time_to_add) ==
    IF rec # NoRecord
    THEN IF should_update(rec, score_to_add, time_to_add)
         THEN [ins |-> {},
               upd |-> UpdateOf(rec,
                         [score |-> score_to_add,
                          time |-> time_to_add,
                          performance |-> Performance(score_to_add, time_to_add)])]
         ELSE NoWrites
    ELSE [ins |-> {TopPerformanceOverall(NoId, BY_LESSON, user, SentinelRank,
                       score_to_add, time_to_add,
                       Performance(score_to_add, time_to_add), lesson)},
          upd |-> {}]

\* ------------------------------------------------------------------------
\* _rerank_mode
\* ------------------------------------------------------------------------
\* mutant: more time wins the tie in every mode
Before_desc(mode, a, b) ==
    \/ a.score > b.score
    \/ (a.score = b.score /\ a.time > b.time)

\* mutant: less time wins the tie in every mode
Before_asc(mode, a, b) ==
    \/ a.score > b.score
    \/ (a.score = b.score /\ a.time < b.time)

\* order_by(desc(score), time.asc()) for BY_LESSON, order_by(desc(score),
\* desc(time)) for the period modes
Before(mode, a, b) ==
    \/ a.score > b.score
    \/ /\ a.score = b.score
       /\ IF mode = BY_LESSON THEN a.time < b.time ELSE a.time > b.time

\* enumerate(records, start=1) over every order the database may return
\* the sorted rows in (rows equal under the sort keys come in any order)
SortOrders(P, mode) ==
    {f \in [Ids(P) -> 1..Cardinality(P)] :
        /\ \A x, y \in Ids(P) : x # y => f[x] # f[y]
        /\ \A a, b \in P : Before(mode, a, b) => f[a.id] < f[b.id]}

\* mutant: enumerate(records) without start=1
RerankWrites_from0(P, order) ==
    [ins |-> {},
     upd |-> UNION {UpdateOf(r, [rank |-> order[r.id] - 1]) : r \in P}]

RerankWrites(P, order) ==
    [ins |-> {},
     upd |-> UNION {UpdateOf(r, [rank |-> order[r.id]]) : r \in P}]

\* the tables _rerank_mode(mode, lesson_id) can leave behind
RerankMode(S, mode, lesson) ==
    {ApplyWrites(S, RerankWrites(Partition(S, mode, lesson), order), {}) :
        order \in SortOrders(Partition(S, mode, lesson), mode)}

\* ------------------------------------------------------------------------
\* flip_week_rankings / flip_month_rankings
\* ------------------------------------------------------------------------
LastOf(current) == IF current = CURRENT_WEEK THEN LAST_WEEK ELSE LAST_MONTH

\* mutant: the old snapshot is not deleted
FlipDelete_none(S, current) == {}

\* mutant: the delete sweeps the snapshots of both periods
FlipDelete_both(S, current) == {r.id : r \in {x \in S : x.mode \in {LAST_WEEK, LAST_MONTH}}}

\* query.filter(mode == last).delete()
FlipDelete(S, current) == {r.id : r \in Partition(S, LastOf(current), NoLesson)}

\* query.filter(mode == current).update({mode: last})
FlipRelabel(S, current) == {r.id : r \in Partition(S, current, NoLesson)}

\* mutant: the relabel runs first and the delete then sweeps the new snapshot
FlipApply_swapped(S, current, deleted, relabeled) ==
    {r \in {IF x.id \in relabeled THEN [x EXCEPT !.mode = LastOf(current)] ELSE x : x \in S} :
        r.mode # LastOf(current)}

\* mutant: the relabel resets the rank of the rows it moves
FlipApply_unranked(S, current, deleted, relabeled) ==
    {IF r.id \in relabeled
     THEN [r EXCEPT !.mode = LastOf(current), !.rank = SentinelRank] ELSE r :
        r \in {x \in S : x.id \notin deleted}}

FlipApply(S, current, deleted, relabeled) ==
    {IF r.id \in relabeled THEN [r EXCEPT !.mode = LastOf(current)] ELSE r :
        r \in {x \in S : x.id \notin deleted}}

\* ------------------------------------------------------------------------
\* State
\* ------------------------------------------------------------------------
VARIABLES
    store,      \* committed rows of top_performance_overall
    users,      \* users.score, users.time, users.is_active per user id
    progress,   \* rows of the progress table, oldest first
    sess,       \* the database session of each in-flight completion event
    flip,       \* the database session of the rollover in flight
    resp,       \* what the last read operation returned
    op,         \* the operation (or statement) that produced this state
    acc,        \* history: deltas applied per live period mode and user
    attempts,   \* history: attempts submitted per (user, lesson)
    nEvents,    \* completion events started so far
    nFlips,     \* rollovers started so far
    nAdmin      \* administrative writes so far

vars == <<store, users, progress, sess, flip, resp, op, acc, attempts, nEvents, nFlips,
          nAdmin>>

Procs == {1, 2}

Periods == {CURRENT_MONTH, CURRENT_WEEK}

Zero == [score |-> 0, time |-> 0, n |-> 0]

IdleSession == [pc |-> "idle"]

IdleFlip == [pc |-> "idle"]

NoResponse == [kind |-> "none"]

Init ==
    /\ store = {}
    /\ users = [u \in Users |-> [score |-> 0, time |-> 0, is_active |-> TRUE]]
    /\ progress = <<>>
    /\ sess = [p \in Procs |-> IdleSession]
    /\ flip = IdleFlip
    /\ resp = NoResponse
    /\ op = [name |-> "init"]
    /\ acc = [m \in Periods |-> [u \in Users |-> Zero]]
    /\ attempts = [k \in Users \X Lessons |-> {}]
    /\ nEvents = 0
    /\ nFlips = 0
    /\ nAdmin = 0

\* history of a completion event handed to update_current_rankings
Record(user, score_to_add, time_to_add, lesson) ==
    /\ nEvents' = nEvents + 1
    /\ acc' = [m \in Periods |->
                 [acc[m] EXCEPT ![user] = [score |-> @.score + score_to_add,
                                           time |-> @.time + time_to_add,
                                           n |-> @.n + 1]]]
    /\ attempts' = IF lesson # NoLesson
                   THEN [attempts EXCEPT ![<<user, lesson>>] =
                             @ \cup {<<score_to_add, time_to_add>>}]
                   ELSE attempts

\* ------------------------------------------------------------------------
\* Sequential operations: one call runs to completion
\* ------------------------------------------------------------------------
\* the table after the three lookups and db.commit() (lines 235-327)
Aggregated(S, user, score_to_add, time_to_add, lesson) ==
    {ApplyWrites(S,
        Merge(AccumulateWrites(rm, CURRENT_MONTH, user, score_to_add, time_to_add),
        Merge(AccumulateWrites(rw, CURRENT_WEEK, user, score_to_add, time_to_add),
              IF lesson # NoLesson
              THEN BestWrites(rl, user, lesson, score_to_add, time_to_add)
              ELSE NoWrites)), {}) :
        rm \in First(QueryUserMode(S, user, CURRENT_MONTH)),
        rw \in First(QueryUserMode(S, user, CURRENT_WEEK)),
        rl \in First(QueryUserLesson(S, user, lesson))}

\* the three _rerank_mode calls (lines 329-333)
Reranked(S, lesson) ==
    UNION {UNION {IF lesson # NoLesson THEN RerankMode(S2, BY_LESSON, lesson) ELSE {S2} :
                    S2 \in RerankMode(S1, CURRENT_WEEK, NoLesson)} :
             S1 \in RerankMode(S, CURRENT_MONTH, NoLesson)}

update_current_rankings(user, score_to_add, time_to_add, lesson) ==
    /\ nEvents < MaxEvents
    /\ \E S1 \in Aggregated(store, user, score_to_add, time_to_add, lesson) :
          \E S2 \in Reranked(S1, lesson) : store' = S2
    /\ Record(user, score_to_add, time_to_add, lesson)
    /\ op' = [name |-> "update_current_rankings", user |-> user, lesson |-> lesson]
    /\ UNCHANGED <<users, progress, sess, flip, resp, nFlips, nAdmin>>

flip_rankings(current, name) ==
    /\ nFlips < MaxFlips
    /\ LET deleted == FlipDelete(store, current)
           relabeled == FlipRelabel(store, current)
       IN /\ store' = FlipApply(store, current, deleted, relabeled)
          /\ op' = [name |-> name, prev |-> op.name,
                    deleted |-> Cardinality(deleted),
                    flipped |-> Cardinality(relabeled)]
    /\ nFlips' = nFlips + 1
    /\ acc' = [acc EXCEPT ![current] = [u \in Users |-> Zero]]
    /\ UNCHANGED <<users, progress, sess, flip, resp, attempts, nEvents, nAdmin>>

flip_week_rankings == flip_rankings(CURRENT_WEEK, "flip_week_rankings")

flip_month_rankings == flip_rankings(CURRENT_MONTH, "flip_month_rankings")

NextSeq ==
    \/ \E user \in Users, c \in SeqCompletions, lesson \in Lessons \cup {NoLesson} :
          \* the users are interchangeable: the first completion is user 1's
          /\ nEvents = 0 => user = 1
          /\ update_current_rankings(user, c[1], c[2], lesson)
    \/ flip_week_rankings
    \/ flip_month_rankings

SpecSeq == Init /\ [][NextSeq]_vars

\* ------------------------------------------------------------------------
\* Concurrent operations: every call runs in its own session; a step is one
\* SELECT, or one db.commit() (flush of the unit of work + COMMIT), or one
\* bulk statement of a rollover.  Statements see the committed table
\* (READ COMMITTED); a commit makes its writes visible at once.
\* ------------------------------------------------------------------------
\* ids a session still refers to
Refs ==
    UNION {IF sess[p].pc = "idle" THEN {} ELSE {u.id : u \in sess[p].w.upd} : p \in Procs}
    \cup (IF flip.pc = "idle" THEN {} ELSE flip.deleted \cup flip.relabeled)

\* rows locked by the statements of the rollover in flight
Locked == IF flip.pc = "idle" THEN {} ELSE flip.deleted \cup flip.relabeled

Blocked(w) == \E u \in w.upd : u.id \in Locked

\* lines 236-262: SELECT the current_month row, change or create it.  The
\* sessions are interchangeable: a new call takes the lowest free one.
ucr_read_month(p, user, score_to_add, time_to_add, lesson) ==
    /\ sess[p].pc = "idle"
    /\ \A q \in Procs : q < p => sess[q].pc # "idle"
    /\ nEvents < MaxEvents
    /\ \E rm \in First(QueryUserMode(store, user, CURRENT_MONTH)) :
          sess' = [sess EXCEPT ![p] =
                      [pc |-> "read_week", user |-> user, score |-> score_to_add,
                       time |-> time_to_add, lesson |-> lesson,
                       w |-> AccumulateWrites(rm, CURRENT_MONTH, user,
                                              score_to_add, time_to_add)]]
    /\ Record(user, score_to_add, time_to_add, lesson)
    /\ UNCHANGED <<store, users, progress, flip, resp, op, nFlips, nAdmin>>

\* lines 265-291: SELECT the current_week row, change or create it
ucr_read_week(p) ==
    /\ sess[p].pc = "read_week"
    /\ LET c == sess[p] IN
       \E rw \in First(QueryUserMode(store, c.user, CURRENT_WEEK)) :
          sess' = [sess EXCEPT ![p] =
                      [c EXCEPT !.pc = IF c.lesson # NoLesson THEN "read_lesson" ELSE "commit",
                                !.w = Merge(@, AccumulateWrites(rw, CURRENT_WEEK, c.user,
                                                                c.score, c.time))]]
    /\ UNCHANGED <<store, users, progress, flip, resp, op, acc, attempts, nEvents, nFlips, nAdmin>>

\* lines 294-325: SELECT the by_lesson row, replace or create it
ucr_read_lesson(p) ==
    /\ sess[p].pc = "read_lesson"
    /\ LET c == sess[p] IN
       \E rl \in First(QueryUserLesson(store, c.user, c.lesson)) :
          sess' = [sess EXCEPT ![p] =
                      [c EXCEPT !.pc = "commit",
                                !.w = Merge(@, BestWrites(rl, c.user, c.lesson,
                                                          c.score, c.time))]]
    /\ UNCHANGED <<store, users, progress, flip, resp, op, acc, attempts, nEvents, nFlips, nAdmin>>

\* what the call does after a successful db.commit()
AfterCommit(c) ==
    CASE c.pc = "commit" -> "rerank_month"
      [] c.pc = "rerank_month_commit" -> "rerank_week"
      [] c.pc = "rerank_week_commit" ->
            IF c.lesson # NoLesson THEN "rerank_lesson" ELSE "idle"
      [] c.pc = "rerank_lesson_commit" -> "idle"

\* db.commit() (line 327 and line 369): the flush raises when a row it
\* updates is gone and the call ends with the transaction rolled back
ucr_commit(p) ==
    /\ sess[p].pc \in {"commit", "rerank_month_commit", "rerank_week_commit",
                       "rerank_lesson_commit"}
    /\ ~Blocked(sess[p].w)
    /\ LET c == sess[p] IN
       IF Stale(store, c.w)
       THEN /\ sess' = [sess EXCEPT ![p] = IdleSession]
            /\ UNCHANGED <<store, op>>
       ELSE /\ store' = ApplyWrites(store, c.w, Refs)
            /\ sess' = [sess EXCEPT ![p] =
                           IF AfterCommit(c) = "idle" THEN IdleSession
                           ELSE [c EXCEPT !.pc = AfterCommit(c), !.w = NoWrites]]
            /\ op' = IF AfterCommit(c) = "idle"
                     THEN [name |-> "update_current_rankings", user |-> c.user,
                           lesson |-> c.lesson]
                     ELSE op
    /\ UNCHANGED <<users, progress, flip, resp, acc, attempts, nEvents, nFlips, nAdmin>>

RerankTarget(c) ==
    CASE c.pc = "rerank_month" -> <<CURRENT_MONTH, NoLesson>>
      [] c.pc = "rerank_week" -> <<CURRENT_WEEK, NoLesson>>
      [] c.pc = "rerank_lesson" -> <<BY_LESSON, c.lesson>>

\* lines 346-367: SELECT the partition in sort order, assign the ranks
ucr_rerank_read(p) ==
    /\ sess[p].pc \in {"rerank_month", "rerank_week", "rerank_lesson"}
    /\ LET c == sess[p]
           P == Partition(store, RerankTarget(c)[1], RerankTarget(c)[2])
       IN \E order \in SortOrders(P, RerankTarget(c)[1]) :
             sess' = [sess EXCEPT ![p] =
                         [c EXCEPT !.pc = IF c.pc = "rerank_month" THEN "rerank_month_commit"
                                          ELSE IF c.pc = "rerank_week" THEN "rerank_week_commit"
                                          ELSE "rerank_lesson_commit",
                                   !.w = RerankWrites(P, order)]]
    /\ UNCHANGED <<store, users, progress, flip, resp, op, acc, attempts, nEvents, nFlips, nAdmin>>

\* mutant: the DELETE is committed on its own before the relabel
AfterDeleteStatement_committed(S, deleted) == {r \in S : r.id \notin deleted}

\* the committed table after the DELETE statement of a flip: the statement
\* runs inside the transaction that db.commit() (line 402) ends
AfterDeleteStatement(S, deleted) == S

\* lines 390-392 / 428-430: DELETE the rows of the last mode
flip_delete(current) ==
    /\ flip.pc = "idle"
    /\ nFlips < MaxFlips
    /\ flip' = [pc |-> "deleted", current |-> current,
                deleted |-> FlipDelete(store, current), relabeled |-> {}]
    /\ store' = AfterDeleteStatement(store, FlipDelete(store, current))
    /\ nFlips' = nFlips + 1
    /\ UNCHANGED <<users, progress, sess, resp, op, acc, attempts, nEvents, nAdmin>>

\* lines 395-400 / 433-438: UPDATE the rows of the current mode
flip_relabel ==
    /\ flip.pc = "deleted"
    /\ flip' = [flip EXCEPT !.pc = "relabeled",
                            !.relabeled = FlipRelabel(store, flip.current)]
    /\ UNCHANGED <<store, users, progress, sess, resp, op, acc, attempts, nEvents, nFlips, nAdmin>>

\* line 402 / 440: db.commit()
flip_commit ==
    /\ flip.pc = "relabeled"
    /\ store' = FlipApply(store, flip.current, flip.deleted, flip.relabeled)
    /\ op' = [name |-> IF flip.current = CURRENT_WEEK THEN "flip_week_rankings"
                       ELSE "flip_month_rankings",
              prev |-> op.name,
              deleted |-> Cardinality(flip.deleted),
              flipped |-> Cardinality(flip.relabeled)]
    /\ flip' = IdleFlip
    /\ acc' = [acc EXCEPT ![flip.current] = [u \in Users |-> Zero]]
    /\ UNCHANGED <<users, progress, sess, resp, attempts, nEvents, nFlips, nAdmin>>

\* the rollover is interrupted before db.commit(): the transaction is
\* rolled back
flip_interrupted ==
    /\ flip.pc \in {"deleted", "relabeled"}
    /\ flip' = IdleFlip
    /\ UNCHANGED <<store, users, progress, sess, resp, op, acc, attempts, nEvents, nFlips, nAdmin>>

\* two completion events at a time, no rollover
NextRace ==
    \/ \E p \in Procs, user \in ConcUsers, score \in Scores, time \in ConcTimes,
          lesson \in Lessons \cup {NoLesson} :
          ucr_read_month(p, user, score, time, lesson)
    \/ \E p \in Procs : ucr_read_week(p)
    \/ \E p \in Procs : ucr_read_lesson(p)
    \/ \E p \in Procs : ucr_commit(p)
    \/ \E p \in Procs : ucr_rerank_read(p)

SpecRace == Init /\ [][NextRace]_vars

\* one completion event at a time, statement by statement, no rollover
NextSteps ==
    \/ \E user \in Users, c \in SeqCompletions, lesson \in Lessons \cup {NoLesson} :
          ucr_read_month(1, user, c[1], c[2], lesson)
    \/ ucr_read_week(1)
    \/ ucr_read_lesson(1)
    \/ ucr_commit(1)
    \/ ucr_rerank_read(1)

SpecSteps == Init /\ [][NextSteps]_vars

\* a burst: two completion events at a time, of different users, no rollover
NextBurst ==
    \/ \E p \in Procs, user \in Users, score \in Scores, time \in ConcTimes,
          lesson \in Lessons \cup {NoLesson} :
          /\ \A q \in Procs \ {p} : sess[q].pc # "idle" => sess[q].user # user
          /\ ucr_read_month(p, user, score, time, lesson)
    \/ \E p \in Procs : ucr_read_week(p)
    \/ \E p \in Procs : ucr_read_lesson(p)
    \/ \E p \in Procs : ucr_commit(p)
    \/ \E p \in Procs : ucr_rerank_read(p)

SpecBurst == Init /\ [][NextBurst]_vars

\* a storage failure (an exception of db.query or db.commit) ends the call;
\* the session is closed and its open transaction rolled back, what earlier
\* commits of the call wrote stays
ucr_interrupted(p) ==
    /\ sess[p].pc # "idle"
    /\ sess' = [sess EXCEPT ![p] = IdleSession]
    /\ op' = [name |-> "storage_failure", user |-> sess[p].user, lesson |-> sess[p].lesson,
              at |-> sess[p].pc]
    /\ UNCHANGED <<store, users, progress, flip, resp, acc, attempts, nEvents, nFlips,
                   nAdmin>>

\* one completion event at a time, any statement of which may fail
NextFailure ==
    \/ \E user \in Users, c \in SeqCompletions, lesson \in Lessons \cup {NoLesson} :
          ucr_read_month(1, user, c[1], c[2], lesson)
    \/ ucr_read_week(1)
    \/ ucr_read_lesson(1)
    \/ ucr_commit(1)
    \/ ucr_rerank_read(1)
    \/ ucr_interrupted(1)

SpecFailure == Init /\ [][NextFailure]_vars

\* one completion event at a time, concurrent with the rollovers
NextRollover ==
    \/ \E user \in ConcUsers, score \in Scores, time \in ConcTimes,
          lesson \in Lessons \cup {NoLesson} :
          ucr_read_month(1, user, score, time, lesson)
    \/ ucr_read_week(1)
    \/ ucr_read_lesson(1)
    \/ ucr_commit(1)
    \/ ucr_rerank_read(1)
    \/ \E current \in Periods : flip_delete(current)
    \/ flip_relabel
    \/ flip_commit
    \/ flip_interrupted

SpecRollover == Init /\ [][NextRollover]_vars

\* ------------------------------------------------------------------------
\* User totals and the all-time view
\* ------------------------------------------------------------------------
Progress(user, lesson, completed_parts, score, time) ==
    [user_id |-> user, lesson_id |-> lesson, completed_parts |-> completed_parts,
     score |-> score, time |-> time]

Max(S) == CHOOSE x \in S : \A y \in S : x >= y

\* mutant: the newest progress of (user, lesson), completed or not
get_progress_by_user_and_lesson_newest(rows, user, lesson) ==
    LET all == {i \in DOMAIN rows :
                    /\ rows[i].user_id = user
                    /\ rows[i].lesson_id = lesson}
    IN IF all = {} THEN 0 ELSE Max(all)

\* the newest progress of (user, lesson) that is not completed, or 0 for None
get_progress_by_user_and_lesson(rows, user, lesson) ==
    LET open == {i \in DOMAIN rows :
                    /\ rows[i].user_id = user
                    /\ rows[i].lesson_id = lesson
                    /\ rows[i].completed_parts < LessonParts[lesson]}
    IN IF open = {} THEN 0 ELSE Max(open)

AddTotals(U, user, score, time) ==
    [U EXCEPT ![user] = [@ EXCEPT !.score = @ + score, !.time = @ + time]]

create_or_update_progress(user, lesson, completed_parts, score, time) ==
    LET existing_progress == get_progress_by_user_and_lesson(progress, user, lesson)
        is_completing_now == completed_parts >= LessonParts[lesson]
    IN /\ IF existing_progress # 0
          THEN LET was_completed == progress[existing_progress].completed_parts
                                        >= LessonParts[lesson]
               IN /\ progress' = [progress EXCEPT ![existing_progress] =
                                     Progress(user, lesson, completed_parts, score, time)]
                  /\ users' = IF is_completing_now /\ ~was_completed
                              THEN AddTotals(users, user, score, time)
                              ELSE users
          ELSE /\ Len(progress) < MaxProgress
               /\ progress' = Append(progress,
                                     Progress(user, lesson, completed_parts, score, time))
               /\ users' = IF is_completing_now
                           THEN AddTotals(users, user, score, time)
                           ELSE users
       /\ resp' = NoResponse
       /\ op' = [name |-> "create_or_update_progress", user |-> user, lesson |-> lesson]
       /\ UNCHANGED <<store, sess, flip, acc, attempts, nEvents, nFlips, nAdmin>>

\* soft delete
delete_user(user) ==
    /\ users' = [users EXCEPT ![user].is_active = FALSE]
    /\ resp' = NoResponse
    /\ op' = [name |-> "delete_user", user |-> user]
    /\ UNCHANGED <<store, progress, sess, flip, acc, attempts, nEvents, nFlips, nAdmin>>

\* mutant: the tie-break counts the users with less time
AllTimeAhead_faster(U, user) ==
    Cardinality({v \in DOMAIN U :
        /\ U[v].is_active
        /\ U[v].score > 0
        /\ \/ U[v].score > U[user].score
           \/ (U[v].score = U[user].score /\ U[v].time < U[user].time)})

\* lines 600-612: count(User.id) of the users ranked ahead
AllTimeAhead(U, user) ==
    Cardinality({v \in DOMAIN U :
        /\ U[v].is_active
        /\ U[v].score > 0
        /\ \/ U[v].score > U[user].score
           \/ (U[v].score = U[user].score /\ U[v].time > U[user].time)})

NotFound(user, mode, lesson) ==
    [kind |-> "not_found", user_id |-> user, mode |-> mode, lesson_id |-> lesson]

Found(user, mode, lesson, rank, score, time, perf, lesson_id) ==
    [kind |-> "rank", user_id |-> user, mode |-> mode, lesson_id |-> lesson,
     result |-> [rank |-> rank, score |-> score, time |-> time,
                 performance |-> perf, lesson_id |-> lesson_id]]

\* mutant: the lesson_id of the request is not used in the lookup
get_user_rank_result_any_lesson(S, U, user, mode, lesson) ==
    IF mode = ALL_TIME
    THEN {IF U[user].score = 0
          THEN NotFound(user, mode, lesson)
          ELSE Found(user, mode, lesson, AllTimeAhead(U, user) + 1,
                     U[user].score, U[user].time,
                     Performance(U[user].score, U[user].time), NoLesson)}
    ELSE {IF r = NoRecord
          THEN NotFound(user, mode, lesson)
          ELSE Found(user, mode, lesson, r.rank, r.score, r.time,
                     r.performance, r.lesson_id) :
             r \in First(QueryUserMode(S, user, mode))}

\* what get_user_rank(user_id, mode, lesson_id) can return
get_user_rank_result(S, U, user, mode, lesson) ==
    IF mode = ALL_TIME
    THEN {IF U[user].score = 0
          THEN NotFound(user, mode, lesson)
          ELSE Found(user, mode, lesson, AllTimeAhead(U, user) + 1,
                     U[user].score, U[user].time,
                     Performance(U[user].score, U[user].time), NoLesson)}
    ELSE {IF r = NoRecord
          THEN NotFound(user, mode, lesson)
          ELSE Found(user, mode, lesson, r.rank, r.score, r.time,
                     r.performance, r.lesson_id) :
             r \in First({x \in QueryUserMode(S, user, mode) :
                             lesson # NoLesson => x.lesson_id = lesson})}

get_user_rank(user, mode, lesson) ==
    /\ resp' \in get_user_rank_result(store, users, user, mode, lesson)
    /\ op' = [name |-> "get_user_rank", user |-> user]
    /\ UNCHANGED <<store, users, progress, sess, flip, acc, attempts, nEvents, nFlips, nAdmin>>

\* ------------------------------------------------------------------------
\* Administrative endpoints of the rankings router and the initial
\* calculation
\* ------------------------------------------------------------------------
\* HTTPException / request validation error raised before the handler returns
Rejected(status) == [kind |-> "error", status |-> status]

\* mutant: the lesson_id of the request is stored as given
final_lesson_id_given(mode, lesson) == lesson

\* TopPerformanceCreate.validate_lesson_id and the check of create_ranking:
\* the lesson_id stored with a mode
final_lesson_id(mode, lesson) == IF mode = BY_LESSON THEN lesson ELSE NoLesson

\* POST /rankings
create_ranking(mode, user, rank, score, time, perf, lesson) ==
    /\ nAdmin < MaxAdmin
    /\ IF mode = BY_LESSON /\ lesson = NoLesson
       THEN /\ resp' = Rejected(422)
            /\ store' = store
       ELSE /\ resp' = NoResponse
            /\ store' = ApplyWrites(store,
                            [ins |-> {TopPerformanceOverall(NoId, mode, user, rank, score,
                                          time, perf, final_lesson_id(mode, lesson))},
                             upd |-> {}], {})
    /\ nAdmin' = nAdmin + 1
    /\ op' = [name |-> "create_ranking", mode |-> mode, lesson |-> lesson]
    /\ UNCHANGED <<users, progress, sess, flip, acc, attempts, nEvents, nFlips>>

\* PUT /rankings/{ranking_id}: the fields set in the body are assigned
update_ranking(ranking_id, ranking_update) ==
    /\ nAdmin < MaxAdmin
    /\ IF ranking_id \notin Ids(store)
       THEN /\ resp' = Rejected(404)
            /\ store' = store
       ELSE /\ resp' = NoResponse
            /\ LET db_ranking == CHOOSE r \in store : r.id = ranking_id
               IN store' = ApplyWrites(store,
                              [ins |-> {}, upd |-> UpdateOf(db_ranking, ranking_update)], {})
    /\ nAdmin' = nAdmin + 1
    /\ op' = [name |-> "update_ranking"]
    /\ UNCHANGED <<users, progress, sess, flip, acc, attempts, nEvents, nFlips>>

\* DELETE /rankings/{ranking_id}
delete_ranking(ranking_id) ==
    /\ nAdmin < MaxAdmin
    /\ IF ranking_id \notin Ids(store)
       THEN /\ resp' = Rejected(404)
            /\ store' = store
       ELSE /\ resp' = NoResponse
            /\ store' = {r \in store : r.id # ranking_id}
    /\ nAdmin' = nAdmin + 1
    /\ op' = [name |-> "delete_ranking"]
    /\ UNCHANGED <<users, progress, sess, flip, acc, attempts, nEvents, nFlips>>

\* an entry of a result list before it becomes a row
Entry(user, score, time) == [user_id |-> user, score |-> score, time |-> time]

\* ORDER BY clauses of the queries
Ahead(order_by, a, b) ==
    CASE order_by = "score desc, time desc" ->
            a.score > b.score \/ (a.score = b.score /\ a.time > b.time)
      [] order_by = "score desc, time asc" ->
            a.score > b.score \/ (a.score = b.score /\ a.time < b.time)
      [] order_by = "score desc" -> a.score > b.score
      [] order_by = "rank asc" -> a.rank < b.rank

\* .order_by(...).all(): every list the database may return the entries E
\* in (entries equal under the sort keys come in any order)
RECURSIVE Sorted(_, _)
Sorted(E, order_by) ==
    IF E = {} THEN {<<>>}
    ELSE UNION {{<<e>> \o t : t \in Sorted(E \ {e}, order_by)} :
                  e \in {x \in E : \A y \in E : ~Ahead(order_by, y, x)}}

RECURSIVE Total(_, _, _)
Total(rows, I, col) ==
    IF I = {} THEN 0
    ELSE LET i == CHOOSE x \in I : TRUE IN rows[i][col] + Total(rows, I \ {i}, col)

\* the DELETE at the start of calculate_and_update_rankings
CalcDelete(S, mode, lesson) ==
    IF lesson # NoLesson
    THEN {r \in S : r.mode = mode /\ r.lesson_id = lesson}
    ELSE {r \in S : r.mode = mode}

\* mutant: deactivated users are listed too
AllTimeEntries_all(U) ==
    {Entry(u, U[u].score, U[u].time) : u \in {v \in DOMAIN U : U[v].score > 0}}

\* ALL_TIME: the active users with a score, by score then time descending
AllTimeEntries(U) ==
    {Entry(u, U[u].score, U[u].time) :
        u \in {v \in DOMAIN U : U[v].is_active /\ U[v].score > 0}}

\* mutant: of the progresses with the best score the slowest is kept
LessonEntries_slowest(rows, lesson) ==
    LET Of(u) == {i \in DOMAIN rows : rows[i].user_id = u /\ rows[i].lesson_id = lesson}
        best_score(u) == Max({rows[i].score : i \in Of(u)})
        slowest(u) == Max({rows[i].time : i \in {j \in Of(u) : rows[j].score = best_score(u)}})
    IN {Entry(u, best_score(u), slowest(u)) : u \in {v \in Users : Of(v) # {}}}

\* BY_LESSON: per user the progress with the best score, the fastest of them
LessonEntries(rows, lesson) ==
    LET Of(u) == {i \in DOMAIN rows : rows[i].user_id = u /\ rows[i].lesson_id = lesson}
        best_score(u) == Max({rows[i].score : i \in Of(u)})
        fastest(u) == Min({rows[i].time : i \in {j \in Of(u) : rows[j].score = best_score(u)}})
    IN {Entry(u, best_score(u), fastest(u)) : u \in {v \in Users : Of(v) # {}}}

\* CURRENT_MONTH / CURRENT_WEEK: per user the sums over the progress rows
\* updated since the start of the period, by total score descending
PeriodEntries(rows, recent) ==
    LET Of(u) == {i \in recent : rows[i].user_id = u}
    IN {Entry(u, Total(rows, Of(u), "score"), Total(rows, Of(u), "time")) :
           u \in {v \in Users : Of(v) # {}}}

\* for rank, entry in enumerate(entries, start=1): db.add(...)
CalcInsert(l, mode, lesson) ==
    {TopPerformanceOverall(NoId, mode, l[i].user_id, i, l[i].score, l[i].time,
                           Performance(l[i].score, l[i].time), lesson) : i \in DOMAIN l}

\* the tables calculate_and_update_rankings(mode, lesson_id) can leave behind;
\* `recent` are the progress rows with updated_at >= start_date
calculate_and_update_rankings(S, U, rows, recent, mode, lesson) ==
    LET kept == S \ CalcDelete(S, mode, lesson)
        Inserted(L, lesson_id) ==
            {InsertAll(kept, CalcInsert(l, mode, lesson_id), Ids(S)) : l \in L}
    IN CASE mode = ALL_TIME ->
              Inserted(Sorted(AllTimeEntries(U), "score desc, time desc"), NoLesson)
         [] mode = BY_LESSON /\ lesson # NoLesson ->
              Inserted(Sorted(LessonEntries(rows, lesson), "score desc, time asc"), lesson)
         [] mode \in {CURRENT_MONTH, CURRENT_WEEK} ->
              Inserted(Sorted(PeriodEntries(rows, recent), "score desc"), NoLesson)
         [] OTHER -> {kept}

\* POST /rankings/calculate
calculate_rankings(mode, lesson, recent) ==
    /\ nAdmin < MaxAdmin
    /\ IF (mode = BY_LESSON /\ lesson = NoLesson) \/ mode \in {LAST_MONTH, LAST_WEEK}
       THEN /\ resp' = Rejected(400)
            /\ store' = store
       ELSE /\ resp' = NoResponse
            /\ store' \in calculate_and_update_rankings(store, users, progress, recent,
                                                        mode, lesson)
    /\ nAdmin' = nAdmin + 1
    /\ op' = [name |-> "calculate_rankings", mode |-> mode, lesson |-> lesson,
              queried |-> ~(\/ (mode = BY_LESSON /\ lesson = NoLesson)
                            \/ mode \in {LAST_MONTH, LAST_WEEK})]
    /\ UNCHANGED <<users, progress, sess, flip, acc, attempts, nEvents, nFlips>>

\* ------------------------------------------------------------------------
\* Read endpoints of the rankings router
\* ------------------------------------------------------------------------
LeaderboardEntry(rank, user, score, time, perf, lesson) ==
    [rank |-> rank, user_id |-> user, score |-> score, time |-> time,
     performance |-> perf, lesson_id |-> lesson]

\* .limit(limit)
Limited(l, limit) == SubSeq(l, 1, Min({limit, Len(l)}))

\* the lists get_leaderboard(mode, lesson_id, limit) can return
get_leaderboard(S, U, mode, lesson, limit) ==
    IF mode = ALL_TIME
    THEN {[i \in DOMAIN l |-> LeaderboardEntry(i, l[i].user_id, l[i].score, l[i].time,
                                  Performance(l[i].score, l[i].time), NoLesson)] :
             l \in {Limited(all, limit) :
                       all \in Sorted(AllTimeEntries(U), "score desc, time desc")}}
    ELSE LET results == {r \in S : /\ r.mode = mode
                                    /\ (mode = BY_LESSON /\ lesson # NoLesson)
                                          => r.lesson_id = lesson}
         IN {[i \in DOMAIN l |-> LeaderboardEntry(l[i].rank, l[i].user_id, l[i].score,
                                     l[i].time, l[i].performance, l[i].lesson_id)] :
                l \in {Limited(all, limit) : all \in Sorted(results, "rank asc")}}

\* mutant: the endpoint does not check the lesson_id
get_leaderboard_endpoint_unchecked(mode, lesson, limit) ==
    /\ \E l \in get_leaderboard(store, users, mode, lesson, limit) :
          resp' = [kind |-> "leaderboard", mode |-> mode, lesson_id |-> lesson,
                   limit |-> limit, entries |-> l]
    /\ op' = [name |-> "get_leaderboard", mode |-> mode, lesson |-> lesson,
              queried |-> TRUE]
    /\ UNCHANGED <<store, users, progress, sess, flip, acc, attempts, nEvents, nFlips,
                   nAdmin>>

\* GET /rankings/leaderboard
get_leaderboard_endpoint(mode, lesson, limit) ==
    /\ IF mode = BY_LESSON /\ lesson = NoLesson
       THEN resp' = Rejected(400)
       ELSE \E l \in get_leaderboard(store, users, mode, lesson, limit) :
               resp' = [kind |-> "leaderboard", mode |-> mode, lesson_id |-> lesson,
                        limit |-> limit, entries |-> l]
    /\ op' = [name |-> "get_leaderboard", mode |-> mode, lesson |-> lesson,
              queried |-> ~(mode = BY_LESSON /\ lesson = NoLesson)]
    /\ UNCHANGED <<store, users, progress, sess, flip, acc, attempts, nEvents, nFlips,
                   nAdmin>>

\* GET /rankings/my-rank (a result of None is answered 404)
get_my_rank(user, mode, lesson) ==
    /\ IF mode = BY_LESSON /\ lesson = NoLesson
       THEN resp' = Rejected(400)
       ELSE resp' \in get_user_rank_result(store, users, user, mode, lesson)
    /\ op' = [name |-> "get_my_rank", mode |-> mode, lesson |-> lesson,
              queried |-> ~(mode = BY_LESSON /\ lesson = NoLesson)]
    /\ UNCHANGED <<store, users, progress, sess, flip, acc, attempts, nEvents, nFlips,
                   nAdmin>>

\* the user totals and the views computed from them
NextUsers ==
    \/ \E user \in Users, lesson \in Lessons, completed_parts \in Parts,
          score \in Scores, time \in Times :
          create_or_update_progress(user, lesson, completed_parts, score, time)
    \/ \E user \in Users : delete_user(user)
    \/ \E user \in Users, mode \in RankingModeEnum, lesson \in Lessons \cup {NoLesson} :
          get_user_rank(user, mode, lesson)
    \/ \E limit \in 1..2 : get_leaderboard_endpoint(ALL_TIME, NoLesson, limit)

SpecUsers == Init /\ [][NextUsers]_vars

\* ------------------------------------------------------------------------
\* Every endpoint that writes ranking records, one request at a time; a
\* response (a rejection, a result) is observed as the last step
\* ------------------------------------------------------------------------
\* lesson ids a record created through POST /rankings may carry: the lesson
\* of the completion events and another one
AdminLessons == {1, 2}

\* bodies of PUT /rankings/{ranking_id}
RankingUpdates ==
    {[rank |-> 2], [score |-> 2],
     [score |-> 2, time |-> 1, performance |-> Performance(2, 1)]}

NextAdmin ==
    /\ resp = NoResponse
    /\ nEvents + nFlips + nAdmin + Len(progress) < MaxWrites
    /\ \/ \E user \in Users, lesson \in Lessons \cup {NoLesson} :
             update_current_rankings(user, 1, 1, lesson)
       \/ flip_week_rankings
       \/ flip_month_rankings
       \/ \E user \in Users, lesson \in Lessons, completed_parts \in Parts, score \in Scores :
             create_or_update_progress(user, lesson, completed_parts, score, 1)
       \/ delete_user(2)
       \/ \E mode \in RankingModeEnum, user \in Users, lesson \in Lessons \cup {NoLesson} :
             create_ranking(mode, user, 1, 1, 1, Performance(1, 1), lesson)
       \/ \E ranking_id \in Ids(store) \cup {FreshId(Ids(store))},
             ranking_update \in RankingUpdates :
             update_ranking(ranking_id, ranking_update)
       \/ \E ranking_id \in Ids(store) \cup {FreshId(Ids(store))} :
             delete_ranking(ranking_id)
       \/ \E mode \in RankingModeEnum, lesson \in Lessons \cup {NoLesson},
             recent \in SUBSET DOMAIN progress :
             calculate_rankings(mode, lesson, recent)

SpecAdmin == Init /\ [][NextAdmin]_vars

\* the read endpoints and the calculation on the tables the engine builds
NextReads ==
    /\ resp = NoResponse
    /\ \/ /\ nEvents + nFlips + nAdmin + Len(progress) < MaxWrites
          /\ \/ \E user \in Users, lesson \in Lessons \cup {NoLesson} :
                   update_current_rankings(user, 1, 1, lesson)
             \/ flip_week_rankings
             \/ flip_month_rankings
             \/ \E user \in Users, lesson \in Lessons, score \in Scores :
                   create_or_update_progress(user, lesson, LessonParts[lesson], score, 1)
             \/ \E mode \in RankingModeEnum, lesson \in Lessons \cup {NoLesson} :
                   calculate_rankings(mode, lesson, DOMAIN progress)
       \/ \E mode \in RankingModeEnum, lesson \in Lessons \cup {NoLesson}, limit \in 1..2 :
             get_leaderboard_endpoint(mode, lesson, limit)
       \/ \E user \in Users, mode \in RankingModeEnum, lesson \in Lessons \cup {NoLesson} :
             get_my_rank(user, mode, lesson)

SpecReads == Init /\ [][NextReads]_vars

\* completion events, rollovers and the calculation of a lesson on a table
\* that also holds records of the modes and lessons they are not about
NextFrame ==
    \/ \E user \in Users, lesson \in Lessons \cup {NoLesson} :
          /\ nEvents + nFlips + nAdmin + Len(progress) < MaxWrites
          /\ ucr_read_month(1, user, 1, 1, lesson)
    \/ ucr_read_week(1)
    \/ ucr_read_lesson(1)
    \/ ucr_commit(1)
    \/ ucr_rerank_read(1)
    \/ /\ sess[1].pc = "idle"
       /\ nEvents + nFlips + nAdmin + Len(progress) < MaxWrites
       /\ \/ flip_week_rankings
          \/ flip_month_rankings
          \/ \E user \in Users, lesson \in Lessons, completed_parts \in Parts,
                score \in Scores, time \in Times :
                create_or_update_progress(user, lesson, completed_parts, score, time)
          \/ \E mode \in RankingModeEnum, user \in Users, lesson \in AdminLessons :
                create_ranking(mode, user, 1, 1, 1, Performance(1, 1), lesson)
          \/ \E lesson \in Lessons :
                calculate_rankings(BY_LESSON, lesson, DOMAIN progress)

SpecFrame == Init /\ [][NextFrame]_vars

\* ------------------------------------------------------------------------
\* Properties of the sequential engine (SpecSeq)
\* ------------------------------------------------------------------------
\* C1 - Accumulation: with the partition empty at the start (or after its
\* flip), the single current_month / current_week row of a user holds the sum
\* of the score deltas and the sum of the time deltas of the user's calls,
\* and a user without a call has no row.
C1_Accumulation ==
    \A m \in Periods, u \in Users :
        LET R == QueryUserMode(store, u, m) IN
        IF acc[m][u].n = 0
        THEN R = {}
        ELSE /\ Cardinality(R) = 1
             /\ \A r \in R : r.score = acc[m][u].score /\ r.time = acc[m][u].time

C1_Witness ==
    \E u \in Users :
        /\ acc[CURRENT_MONTH][u].n >= 2
        /\ acc[CURRENT_WEEK][u].n = 1
        /\ \E r \in QueryUserMode(store, u, CURRENT_MONTH) : r.score = 3 /\ r.time = 1
        /\ \E r \in QueryUserMode(store, u, CURRENT_WEEK) : r.score < 3

\* the attempt that is maximal under "higher score first, then lower time"
BestOf(A) ==
    CHOOSE a \in A : \A b \in A :
        a = b \/ a[1] > b[1] \/ (a[1] = b[1] /\ a[2] < b[2])

\* C3 - Best attempt: the by_lesson row of (user, lesson) holds the score and
\* time of the best of all attempts submitted for it, whatever their order,
\* and there is no row without an attempt.
C3_BestAttempt ==
    \A u \in Users, l \in Lessons :
        LET R == QueryUserLesson(store, u, l)
            A == attempts[<<u, l>>]
        IN IF A = {}
           THEN R = {}
           ELSE /\ Cardinality(R) = 1
                /\ \A r \in R : <<r.score, r.time>> = BestOf(A)

C3_Witness ==
    \E u \in Users, l \in Lessons :
        /\ {<<1, 0>>, <<2, 1>>, <<2, 0>>} \subseteq attempts[<<u, l>>]
        /\ \E r \in QueryUserLesson(store, u, l) : r.score = 2 /\ r.time = 0

RanksTotal(P) == {r.rank : r \in P} = 1..Cardinality(P)

\* C4 - Rank totality: when update_current_rankings has run its re-ranks, the
\* ranks of current_month, of current_week and of the lesson's by_lesson
\* partition are exactly 1..N.
C4_RankTotality ==
    op.name = "update_current_rankings" =>
        /\ RanksTotal(Partition(store, CURRENT_MONTH, NoLesson))
        /\ RanksTotal(Partition(store, CURRENT_WEEK, NoLesson))
        /\ op.lesson # NoLesson => RanksTotal(Partition(store, BY_LESSON, op.lesson))

C4_Witness ==
    /\ op.name = "update_current_rankings"
    /\ op.lesson # NoLesson
    /\ Cardinality(Partition(store, CURRENT_MONTH, NoLesson)) = 2
    /\ Cardinality(Partition(store, BY_LESSON, op.lesson)) = 2
    /\ \E a, b \in Partition(store, CURRENT_MONTH, NoLesson) :
          a.id # b.id /\ a.score = b.score /\ a.time = b.time

\* C11 - Period comparator: after the re-ranks of update_current_rankings, in
\* current_month and in current_week a record with a higher score, or with
\* the same score and more accumulated time, has the smaller rank.
C11_PeriodComparator ==
    op.name = "update_current_rankings" =>
        \A m \in Periods : \A a, b \in Partition(store, m, NoLesson) :
            (a.score > b.score \/ (a.score = b.score /\ a.time > b.time))
                => a.rank < b.rank

C11_Witness ==
    /\ op.name = "update_current_rankings"
    /\ \E a, b \in Partition(store, CURRENT_WEEK, NoLesson) :
          a.score = b.score /\ a.time > b.time /\ a.rank = 1 /\ b.rank = 2

\* C12 - By-lesson comparator: after the re-rank of the lesson's partition, a
\* record with a higher score, or with the same score and a shorter time, has
\* the smaller rank.
C12_LessonComparator ==
    (op.name = "update_current_rankings" /\ op.lesson # NoLesson) =>
        \A a, b \in Partition(store, BY_LESSON, op.lesson) :
            (a.score > b.score \/ (a.score = b.score /\ a.time < b.time))
                => a.rank < b.rank

C12_Witness ==
    /\ op.name = "update_current_rankings"
    /\ op.lesson # NoLesson
    /\ \E a, b \in Partition(store, BY_LESSON, op.lesson) :
          a.score = b.score /\ a.time < b.time /\ a.rank = 1 /\ b.rank = 2

Relabeled(S, T, current) ==
    /\ Partition(T, current, NoLesson) = {}
    /\ \A r \in Partition(S, current, NoLesson) :
          [r EXCEPT !.mode = LastOf(current)] \in T

\* C5 - Rollover emptying: a flip leaves no row of the current mode, and every
\* row that had the current mode is now of the last mode with the same user,
\* score, time and performance.
C5_RolloverEmptying ==
    [][/\ (op'.name = "flip_week_rankings" /\ nFlips' # nFlips)
             => Relabeled(store, store', CURRENT_WEEK)
       /\ (op'.name = "flip_month_rankings" /\ nFlips' # nFlips)
             => Relabeled(store, store', CURRENT_MONTH)]_vars

C5_Witness ==
    /\ op.name = "flip_month_rankings"
    /\ op.flipped = 2
    /\ op.deleted = 0
    /\ Cardinality(Partition(store, LAST_MONTH, NoLesson)) = 2
    /\ Partition(store, LAST_WEEK, NoLesson) # {}

SecondFlipWeek ==
    /\ op.name = "flip_week_rankings"
    /\ op'.name = "flip_week_rankings"
    /\ nFlips' # nFlips

\* C6 as stated - Rollover idempotence: a second flip_week_rankings in a row
\* changes nothing and returns the counts 0 and 0.
C6_FlipIdempotent ==
    [][SecondFlipWeek => (store' = store /\ op'.deleted = 0 /\ op'.flipped = 0)]_vars

\* C6 amended - a second flip_week_rankings in a row relabels nothing and
\* leaves current_week empty, but deletes the last_week rows the first call
\* produced; every other row is untouched.
C6_SecondFlipClearsSnapshot ==
    [][SecondFlipWeek =>
          /\ op'.flipped = 0
          /\ op'.deleted = op.flipped
          /\ Partition(store', CURRENT_WEEK, NoLesson) = {}
          /\ store' = store \ Partition(store, LAST_WEEK, NoLesson)]_vars

C6_Witness ==
    /\ op.name = "flip_week_rankings"
    /\ op.prev = "flip_week_rankings"
    /\ op.deleted = 2
    /\ op.flipped = 0
    /\ Partition(store, LAST_WEEK, NoLesson) = {}

\* ------------------------------------------------------------------------
\* Properties of concurrent completion events (SpecRace)
\* ------------------------------------------------------------------------
RECURSIVE Sum(_, _)
Sum(R, col) ==
    IF R = {} THEN 0
    ELSE LET r == CHOOSE x \in R : TRUE IN r[col] + Sum(R \ {r}, col)

AllReturned == \A p \in Procs : sess[p].pc = "idle"

\* C2 - No lost update: once the concurrent calls have returned, the
\* current_month and current_week rows of a user hold the sum of the score
\* deltas and the sum of the time deltas of all the user's calls.
C2_NoLostUpdate ==
    AllReturned =>
        \A m \in Periods, u \in Users :
            /\ Sum(QueryUserMode(store, u, m), "score") = acc[m][u].score
            /\ Sum(QueryUserMode(store, u, m), "time") = acc[m][u].time

SameKey(a, b) ==
    /\ a.mode = b.mode
    /\ a.user_id = b.user_id
    /\ a.mode = BY_LESSON => a.lesson_id = b.lesson_id

\* C9 - Uniqueness: at most one row per (mode, user), and per (user, lesson)
\* for by_lesson.
C9_Uniqueness == \A a, b \in store : SameKey(a, b) => a.id = b.id

\* ------------------------------------------------------------------------
\* Properties of the rollover under concurrency (SpecRollover)
\* ------------------------------------------------------------------------
Frozen(S) == {r \in S : r.mode \in {LAST_WEEK, LAST_MONTH}}

FlipCommits == flip.pc = "relabeled" /\ flip'.pc = "idle"

\* C7 - Frozen snapshots: only the commit of a flip creates, changes or
\* deletes a last_week / last_month row; no statement of
\* update_current_rankings or _rerank_mode does.
C7_FrozenSnapshots == [][~FlipCommits => Frozen(store') = Frozen(store)]_vars

\* ids of the rows of mode `last` that a step removes
Swept(S, T, last) == {r.id : r \in Partition(S, last, NoLesson)} \ Ids(T)

\* ids of the rows a step turns from `current` into its last mode
Moved(S, T, current) ==
    {r.id : r \in Partition(S, current, NoLesson)}
        \cap {r.id : r \in Partition(T, LastOf(current), NoLesson)}

\* C8 - Rollover atomicity: whenever the committed table loses an old last_*
\* row or shows a current_* row relabeled, that step is the commit of the
\* flip and it applies the whole delete and the whole relabel together; an
\* interrupted flip leaves the table as it was.
C8_RolloverAtomic ==
    [][\A current \in Periods :
          (\/ Swept(store, store', LastOf(current)) # {}
           \/ Moved(store, store', current) # {})
          => /\ FlipCommits
             /\ flip.current = current
             /\ Swept(store, store', LastOf(current)) = flip.deleted
             /\ Moved(store, store', current) = flip.relabeled]_vars

C8_Witness ==
    /\ op.name = "flip_week_rankings"
    /\ op.deleted >= 1
    /\ op.flipped >= 1
    /\ Partition(store, LAST_WEEK, NoLesson) # {}
    /\ Partition(store, CURRENT_WEEK, NoLesson) = {}

\* ------------------------------------------------------------------------
\* Properties of the all-time view (SpecUsers)
\* ------------------------------------------------------------------------
Active(U) == {v \in DOMAIN U : U[v].is_active}

\* C10 - All-time rank: for a user with total score S > 0 and total time T,
\* get_user_rank(user, all_time) returns 1 + the number of active users with
\* a higher score + the number of active users with score S and more time.
C10_AllTimeRank ==
    \A u \in Users :
        (/\ resp.kind \in {"rank", "not_found"}
         /\ resp.user_id = u
         /\ resp.mode = ALL_TIME
         /\ users[u].score > 0)
        => /\ resp.kind = "rank"
           /\ resp.result.rank =
                 1 + Cardinality({v \in Active(users) : users[v].score > users[u].score})
                   + Cardinality({v \in Active(users) :
                                     /\ users[v].score = users[u].score
                                     /\ users[v].time > users[u].time})

C10_Witness ==
    /\ resp.kind = "rank"
    /\ resp.mode = ALL_TIME
    /\ resp.result.rank = 2
    /\ \E v \in Active(users) :
          /\ users[v].score = users[resp.user_id].score
          /\ users[v].time > users[resp.user_id].time
    /\ ~users[resp.user_id].is_active

\* the users an all-time leaderboard lists
Listed(U) == {v \in Active(U) : U[v].score > 0}

\* u is placed before v: higher score, or the same score and more time
PlacedBefore(U, u, v) ==
    U[u].score > U[v].score \/ (U[u].score = U[v].score /\ U[u].time > U[v].time)

\* C18 - All-time leaderboard: get_leaderboard(all_time, limit) lists active
\* users with score > 0 only, each once with its totals, in the order score
\* descending then time descending, cut to the first `limit` of them, with the
\* ranks 1..k by position; the request changes neither the table nor the
\* users.
C18_AllTimeLeaderboard ==
    [][(resp'.kind = "leaderboard" /\ resp'.mode = ALL_TIME) =>
          LET l == resp'.entries IN
          /\ store' = store /\ users' = users /\ progress' = progress
          /\ Len(l) = Min({resp'.limit, Cardinality(Listed(users))})
          /\ \A i \in DOMAIN l :
                /\ l[i].rank = i
                /\ l[i].user_id \in Listed(users)
                /\ l[i].score = users[l[i].user_id].score
                /\ l[i].time = users[l[i].user_id].time
          /\ \A i, j \in DOMAIN l :
                i < j => /\ l[i].user_id # l[j].user_id
                         /\ ~PlacedBefore(users, l[j].user_id, l[i].user_id)
          /\ \A v \in Listed(users) \ {l[i].user_id : i \in DOMAIN l} :
                \A i \in DOMAIN l : ~PlacedBefore(users, v, l[i].user_id)]_vars

C18_Witness ==
    /\ resp.kind = "leaderboard"
    /\ resp.mode = ALL_TIME
    /\ resp.limit = 1
    /\ Len(resp.entries) = 1
    /\ \E v \in Listed(users) :
          /\ v # resp.entries[1].user_id
          /\ users[v].score = resp.entries[1].score
          /\ users[v].time < resp.entries[1].time

\* C13 - Live update on completion: a create_or_update_progress that completes
\* a lesson (the user's totals grow by the attempt's score and time) leaves
\* the user with current_month and current_week records grown by the same
\* score and time.
C13_LiveUpdate ==
    [][\A u \in Users :
          users'[u].score # users[u].score =>
              \A m \in Periods :
                  /\ QueryUserMode(store', u, m) # {}
                  /\ Sum(QueryUserMode(store', u, m), "score")
                        = Sum(QueryUserMode(store, u, m), "score")
                            + (users'[u].score - users[u].score)
                  /\ Sum(QueryUserMode(store', u, m), "time")
                        = Sum(QueryUserMode(store, u, m), "time")
                            + (users'[u].time - users[u].time)]_vars

\* ------------------------------------------------------------------------
\* Properties of the table under every writer (SpecAdmin)
\* ------------------------------------------------------------------------
\* C14 - lesson_id invariant: a ranking record has a lesson_id if and only if
\* its mode is by_lesson, whatever sequence of completion updates, flips,
\* calculations and administrative creates, updates and deletes produced it.
C14_LessonIdInvariant ==
    \A r \in store : (r.lesson_id # NoLesson) <=> (r.mode = BY_LESSON)

C14_Witness ==
    /\ op.name = "create_ranking"
    /\ op.mode # BY_LESSON
    /\ op.lesson # NoLesson
    /\ resp = NoResponse
    /\ \E r \in store : r.mode = BY_LESSON /\ r.lesson_id \in Lessons
    /\ \E r \in store : r.mode = op.mode /\ r.lesson_id = NoLesson

\* C15 - all_time is never materialized: the table holds no record of mode
\* all_time.
C15_AllTimeNotMaterialized == \A r \in store : r.mode # ALL_TIME

\* ------------------------------------------------------------------------
\* Properties of the read endpoints (SpecReads)
\* ------------------------------------------------------------------------
\* C16 - Validation error: a leaderboard, my-rank or calculate request with
\* mode by_lesson and no lesson_id is answered with the error 400 without a
\* query on the table, and the table is unchanged.
C16_ValidationError ==
    [][(/\ op'.name \in {"get_leaderboard", "get_my_rank", "calculate_rankings"}
        /\ op'.mode = BY_LESSON
        /\ op'.lesson = NoLesson)
       => /\ resp' = Rejected(400)
          /\ ~op'.queried
          /\ store' = store]_vars

C16_Witness ==
    /\ op.name = "get_my_rank"
    /\ op.mode = BY_LESSON
    /\ op.lesson = NoLesson
    /\ resp = Rejected(400)
    /\ \E r \in store : r.mode = BY_LESSON

\* the records a lookup for (mode, user), and the lesson when one is given,
\* selects
Lookup(S, user, mode, lesson) ==
    {r \in S : /\ r.user_id = user
               /\ r.mode = mode
               /\ lesson # NoLesson => r.lesson_id = lesson}

Touched(S, lesson) ==
    Partition(S, CURRENT_MONTH, NoLesson) \cup Partition(S, CURRENT_WEEK, NoLesson)
        \cup (IF lesson # NoLesson THEN Partition(S, BY_LESSON, lesson) ELSE {})

\* C19 - Provisional rank: a record that update_current_rankings creates
\* carries the sentinel rank 999999, which is larger than the rank of every
\* record ranked before, and when the call returns no record of the
\* partitions it touched still carries the sentinel.
C19_ProvisionalRank ==
    [][/\ \A r \in store' :
             r.id \notin Ids(store) =>
                 /\ r.rank = SentinelRank
                 /\ \A x \in store : x.rank # SentinelRank => x.rank < r.rank
       /\ (sess[1].pc # "idle" /\ sess'[1].pc = "idle") =>
             \A r \in Touched(store', sess[1].lesson) : r.rank # SentinelRank]_vars

C19_Witness ==
    /\ sess[1].pc = "rerank_month"
    /\ \E r, x \in Partition(store, CURRENT_WEEK, NoLesson) :
          r.rank = SentinelRank /\ x.rank = 1
    /\ \E r, x \in Partition(store, BY_LESSON, 1) :
          r.rank = SentinelRank /\ x.rank = 1

\* a has to be ranked above b in a partition of `mode`
RankedAbove(mode, a, b) ==
    \/ a.score > b.score
    \/ /\ a.score = b.score
       /\ (mode = BY_LESSON => a.time < b.time)
       /\ (mode # BY_LESSON => a.time > b.time)

\* C20 - Ranks catch up after a burst: when every update_current_rankings
\* call has returned, the ranks of current_month, of current_week and of each
\* lesson's by_lesson partition are exactly 1..N and follow the comparator
\* order of the stored scores and times.
C20_RanksCatchUp ==
    AllReturned =>
        \A k \in ({CURRENT_MONTH, CURRENT_WEEK} \X {NoLesson}) \cup ({BY_LESSON} \X Lessons) :
            LET P == Partition(store, k[1], k[2]) IN
            /\ RanksTotal(P)
            /\ \A a, b \in P : RankedAbove(k[1], a, b) => a.rank < b.rank

\* ------------------------------------------------------------------------
\* Frame properties (SpecFrame)
\* ------------------------------------------------------------------------
\* the records of S a completion event for `lesson` has no business with
Foreign(S, lesson) ==
    {r \in S : \/ r.mode \in {ALL_TIME, LAST_WEEK, LAST_MONTH}
                \/ (r.mode = BY_LESSON /\ r.lesson_id # lesson)}

\* C21 - Frame of a completion event: no statement of update_current_rankings
\* changes a field of a record of mode all_time, last_week or last_month, or
\* of a by_lesson record of another lesson, or a user total; without a
\* lesson_id it creates and changes no by_lesson record at all; and the call
\* does not end with an error.
C21_CompletionFrame ==
    [][sess[1].pc # "idle" =>
          /\ Foreign(store', sess[1].lesson) = Foreign(store, sess[1].lesson)
          /\ users' = users
          /\ sess[1].lesson = NoLesson =>
                 {r \in store' : r.mode = BY_LESSON} = {r \in store : r.mode = BY_LESSON}
          /\ sess'[1].pc = "idle" =>
                 /\ ~Stale(store, sess[1].w)
                 /\ op'.name = "update_current_rankings"]_vars

C21_Witness ==
    /\ op.name = "update_current_rankings"
    /\ op.lesson = 1
    /\ sess[1].pc = "idle"
    /\ \E r \in store : r.mode = BY_LESSON /\ r.lesson_id = 2 /\ r.rank = 1
    /\ \E r \in store : r.mode = BY_LESSON /\ r.lesson_id = 1 /\ r.rank = 1
    /\ \E r \in store : r.mode \in {ALL_TIME, LAST_WEEK, LAST_MONTH}

\* C22 - Derived performance: every ranking record has performance = score /
\* time when time > 0 and performance = 0 when time = 0, after every completion
\* update, best-attempt replacement, calculation and administrative update.
C22_DerivedPerformance ==
    \A r \in store : r.performance = Performance(r.score, r.time)

\* the records of S whose mode is one of M
OfModes(S, M) == {r \in S : r.mode \in M}

\* C26 - Flip frame: flip_week_rankings changes no record of mode
\* current_month, last_month or by_lesson and no user total, and
\* flip_month_rankings changes no record of mode current_week, last_week or
\* by_lesson and no user total.
C26_FlipFrame ==
    [][/\ (op'.name = "flip_week_rankings" /\ nFlips' # nFlips) =>
             /\ OfModes(store', {CURRENT_MONTH, LAST_MONTH, BY_LESSON})
                   = OfModes(store, {CURRENT_MONTH, LAST_MONTH, BY_LESSON})
             /\ users' = users
       /\ (op'.name = "flip_month_rankings" /\ nFlips' # nFlips) =>
             /\ OfModes(store', {CURRENT_WEEK, LAST_WEEK, BY_LESSON})
                   = OfModes(store, {CURRENT_WEEK, LAST_WEEK, BY_LESSON})
             /\ users' = users]_vars

C26_Witness ==
    /\ op.name = "flip_week_rankings"
    /\ op.flipped >= 1
    /\ OfModes(store, {LAST_WEEK}) # {}
    /\ OfModes(store, {CURRENT_MONTH}) # {}
    /\ OfModes(store, {LAST_MONTH}) # {}
    /\ OfModes(store, {BY_LESSON}) # {}

\* ------------------------------------------------------------------------
\* Snapshots and standings between rollovers (SpecSeq)
\* ------------------------------------------------------------------------
\* the ranks of a period partition P are 1..N in the order score descending,
\* then time descending
PeriodRanked(P) ==
    /\ RanksTotal(P)
    /\ \A a, b \in P : RankedAbove(CURRENT_WEEK, a, b) => a.rank < b.rank

FlipsWeek == op'.name = "flip_week_rankings" /\ nFlips' # nFlips

\* C27 - Snapshot ranks: flip_week_rankings turns every current_week record
\* into a last_week record with the same rank, so ranks that were 1..N in
\* comparator order in current_week are 1..N in the same order in last_week;
\* and no other operation changes a last_week record, so they stay so until
\* the next flip_week_rankings.
C27_SnapshotRanks ==
    [][/\ FlipsWeek =>
             /\ Partition(store', LAST_WEEK, NoLesson)
                   = {[r EXCEPT !.mode = LAST_WEEK] : r \in Partition(store, CURRENT_WEEK, NoLesson)}
             /\ PeriodRanked(Partition(store, CURRENT_WEEK, NoLesson))
                   => PeriodRanked(Partition(store', LAST_WEEK, NoLesson))
       /\ ~FlipsWeek =>
             Partition(store', LAST_WEEK, NoLesson) = Partition(store, LAST_WEEK, NoLesson)]_vars

C27_Witness ==
    /\ op.name = "update_current_rankings"
    /\ Partition(store, CURRENT_WEEK, NoLesson) # {}
    /\ \E a, b \in Partition(store, LAST_WEEK, NoLesson) :
          a.rank = 1 /\ b.rank = 2 /\ a.score = b.score /\ a.time > b.time

\* C28 - Monotonic standings: update_current_rankings removes no record and,
\* as long as a record keeps its mode (no flip relabels it), never decreases
\* the score or the time of a current_month or current_week record, never
\* decreases the score of a by_lesson record and never increases the time of a
\* by_lesson record whose score stays the same.
C28_MonotonicStandings ==
    [][/\ (op'.name = "update_current_rankings" /\ nEvents' # nEvents)
             => Ids(store) \subseteq Ids(store')
       /\ \A r \in store : \A x \in store' :
             (x.id = r.id /\ x.mode = r.mode) =>
                 /\ r.mode \in Periods => (x.score >= r.score /\ x.time >= r.time)
                 /\ r.mode = BY_LESSON =>
                        /\ x.score >= r.score
                        /\ x.score = r.score => x.time <= r.time]_vars

C28_Witness ==
    /\ op.name = "update_current_rankings"
    /\ op.lesson # NoLesson
    /\ attempts[<<op.user, op.lesson>>] = {<<2, 0>>, <<1, 0>>, <<2, 1>>}
    /\ \E r \in QueryUserLesson(store, op.user, op.lesson) : r.score = 2 /\ r.time = 0
    /\ \E r \in QueryUserMode(store, op.user, CURRENT_MONTH) : r.score = 5 /\ r.time = 1

\* ------------------------------------------------------------------------
\* The initial calculation of a lesson (SpecFrame)
\* ------------------------------------------------------------------------
\* the progress rows of (user, lesson)
ProgressOf(rows, user, lesson) ==
    {i \in DOMAIN rows : rows[i].user_id = user /\ rows[i].lesson_id = lesson}

\* row i is maximal among I under "higher score, then lower time"
BestProgress(rows, I, i) ==
    \A j \in I : \/ rows[i].score > rows[j].score
                 \/ (rows[i].score = rows[j].score /\ rows[i].time <= rows[j].time)

CalculatesLesson ==
    /\ op'.name = "calculate_rankings"
    /\ op'.mode = BY_LESSON
    /\ op'.lesson # NoLesson
    /\ nAdmin' # nAdmin

\* C29 - Backfill of a lesson: after calculate_and_update_rankings(by_lesson,
\* lesson) the lesson's partition holds exactly one record per user with a
\* progress row for the lesson, carrying the score and time of the user's
\* best progress row (higher score, then lower time), with the ranks 1..N in
\* the order score descending, time ascending; every other record is
\* unchanged.
C29_LessonBackfill ==
    [][CalculatesLesson =>
          LET lesson == op'.lesson
              P == {r \in store' : r.mode = BY_LESSON /\ r.lesson_id = lesson}
          IN /\ \A u \in Users :
                   Cardinality(QueryUserLesson(store', u, lesson))
                      = IF ProgressOf(progress, u, lesson) # {} THEN 1 ELSE 0
             /\ \A r \in P :
                   \E i \in ProgressOf(progress, r.user_id, lesson) :
                      /\ BestProgress(progress, ProgressOf(progress, r.user_id, lesson), i)
                      /\ r.score = progress[i].score
                      /\ r.time = progress[i].time
             /\ RanksTotal(P)
             /\ \A a, b \in P : RankedAbove(BY_LESSON, a, b) => a.rank < b.rank
             /\ store' \ P = {r \in store : ~(r.mode = BY_LESSON /\ r.lesson_id = lesson)}]_vars

C29_Witness ==
    /\ op.name = "calculate_rankings"
    /\ op.mode = BY_LESSON
    /\ op.lesson = 1
    /\ Len(progress) = 2
    /\ progress[1].user_id = progress[2].user_id
    /\ progress[1].score = progress[2].score
    /\ progress[1].time < progress[2].time
    /\ \E r \in QueryUserLesson(store, progress[1].user_id, 1) :
          r.time = progress[1].time /\ r.rank = 1

\* ------------------------------------------------------------------------
\* Properties under storage failures (SpecFailure)
\* ------------------------------------------------------------------------
\* C23 - No partial completion event: when a call has ended, by returning or
\* by a storage failure, the table does not show its aggregates without its
\* re-ranks: no record of current_month, current_week or by_lesson is left
\* with the sentinel rank.
C23_NoPartialEvent ==
    sess[1].pc = "idle" =>
        \A r \in store :
            r.mode \in {CURRENT_MONTH, CURRENT_WEEK, BY_LESSON} => r.rank # SentinelRank

\* ------------------------------------------------------------------------
\* Agreement of the two all-time views (SpecUsers)
\* ------------------------------------------------------------------------
\* C24 - All-time views agree: every entry of an all-time leaderboard carries
\* the rank that get_user_rank(user, all_time) returns for its user in the
\* same state, also when users have equal score and equal time.
C24_AllTimeViewsAgree ==
    (resp.kind = "leaderboard" /\ resp.mode = ALL_TIME) =>
        \A i \in DOMAIN resp.entries :
            \A x \in get_user_rank_result(store, users, resp.entries[i].user_id,
                                          ALL_TIME, NoLesson) :
                x.kind = "rank" /\ x.result.rank = resp.entries[i].rank

\* C25 - All-time eligibility: get_user_rank(user, all_time) returns a rank
\* only for an active user with score > 0, the users the all-time leaderboard
\* lists; for a deactivated user it answers "not found".
C25_AllTimeEligibility ==
    (resp.kind = "rank" /\ resp.mode = ALL_TIME) => resp.user_id \in Listed(users)

\* ------------------------------------------------------------------------
\* User totals (SpecUsers)
\* ------------------------------------------------------------------------
Completed(row) == row.completed_parts >= LessonParts[row.lesson_id]

\* the progress rows of `user` that a step completes
NewlyCompleted(old, new, user) ==
    {i \in DOMAIN new :
        /\ new[i].user_id = user
        /\ Completed(new[i])
        /\ i \in DOMAIN old => ~Completed(old[i])}

====
